---- MODULE Spec2Model ----
(***************************************************************************)
(* Persistence layer of the AUTOPILOT document-extraction pipeline         *)
(* (infra/init.sql): the extraction cache, the session ledger, the daily   *)
(* quality metrics and the cleanup function, with the store operations     *)
(* that the application runs against these tables.                         *)
(*                                                                         *)
(* A table is the set of its rows (the surrogate "id SERIAL" column is     *)
(* left out: no statement reads it).  Time is counted in ticks of          *)
(* 1/TicksPerDay day; NULL is NoHash for a hash and NULL for a number.     *)
(***************************************************************************)
EXTENDS Integers, FiniteSets, Sequences, TLC

\* ------------------------------------------------------------------ bounds
TicksPerDay == 2
MaxAccess == 3

\* ------------------------------------------------------- program constants
SessionRetentionDays == 30
CacheRetentionDays == 7
MetricsRetentionDays == 365
AccessCountDefault == 1
CountDefault == 0
CostDefault == 0

\* --------------------------------------------------------------- input sets
NULL == -1
NoHash == "null"
Workers == {"w1", "w2"}
Hashes == {"hash001", "hash002"}
\* The extraction results put, with their confidence (hundredths, or NULL).
Payloads == {<<"A", 90>>, <<"A", NULL>>, <<"B", 90>>}

\* The instants the clock takes: the start, one tick later, and one tick past
\* each retention window (so that a row written at tick 1 is exactly one
\* window old, and a row written at tick 0 is older).
Times ==
    {0, 1, CacheRetentionDays * TicksPerDay + 1,
     SessionRetentionDays * TicksPerDay + 1,
     MetricsRetentionDays * TicksPerDay + 1}

VARIABLES
    now,               \* CURRENT_TIMESTAMP, in ticks
    extraction_cache,  \* rows of extraction_cache
    demo_sessions,     \* rows of demo_sessions
    quality_metrics,   \* rows of quality_metrics
    pc,                \* per worker: "idle", or "missed" after a cache miss
    pending,           \* per worker: the hash it missed on
    last               \* the operation just run and its outcome

vars ==
    <<now, extraction_cache, demo_sessions, quality_metrics, pc, pending, last>>

\* ------------------------------------------------------------- conversions
\* DATE(ts): the calendar day of a timestamp.
DATE(ts) == ts \div TicksPerDay

\* INTERVAL 'n days' in ticks.
Days(n) == n * TicksPerDay

\* --------------------------------------------------------- extraction_cache
\* Variant of the lookup that compares the hash with the wrong column.
CacheRowsByResult(cache, h) == {r \in cache : r.extraction_result = h}
\* The rows of a hash.
CacheRows(cache, h) == {r \in cache : r.file_hash = h}

\* file_hash VARCHAR(64) UNIQUE NOT NULL: an INSERT of a present hash is
\* rejected.
CacheUniqueOff(cache, h) == FALSE
CacheUniqueViolation(cache, h) == \E r \in cache : r.file_hash = h

\* The row an INSERT INTO extraction_cache (file_hash, extraction_result,
\* confidence_score) makes: the other columns take their defaults.
NewCacheRowZero(h, res, conf, t) ==
    [file_hash |-> h, extraction_result |-> res, confidence_score |-> conf,
     created_at |-> t, accessed_at |-> t, access_count |-> 0]
NewCacheRow(h, res, conf, t) ==
    [file_hash |-> h, extraction_result |-> res, confidence_score |-> conf,
     created_at |-> t, accessed_at |-> t, access_count |-> AccessCountDefault]

\* INSERT INTO extraction_cache: rejected by the unique constraint when the
\* hash is present, and the table is then as it was.
InsertCacheOverwrite(cache, row) ==
    {r \in cache : r.file_hash # row.file_hash} \cup {row}
InsertCache(cache, row) ==
    IF CacheUniqueViolation(cache, row.file_hash) THEN cache ELSE cache \cup {row}

\* Variant in which the count written is one more than the count of a fresh
\* entry, as when two lookups both read the count before either writes it.
TouchStale(r, t) ==
    [r EXCEPT !.accessed_at = t, !.access_count = AccessCountDefault + 1]
\* The read-and-touch of one row.
Touch(r, t) == [r EXCEPT !.accessed_at = t, !.access_count = r.access_count + 1]

\* What the caller of an operation sees: the operation, its worker and key (a
\* hash or a session id), the status, the rows written, the cache payload
\* (sent by put, returned by get), whether a put follows the worker's own
\* miss, the range of a rebuild, and for a lookup the operation it came after.
Outcome(op, w, h, status) ==
    [op |-> op, worker |-> w, hash |-> h, status |-> status, rows |-> 0,
     result |-> "", confidence |-> NULL, access_count |-> 0, missed |-> FALSE,
     range |-> <<>>, after |-> <<>>]

\* The cache operation a lookup came directly after (a put, a lookup or a
\* cleanup), as the lookup's outcome keeps it; nothing after any other step.
Preceding(o) ==
    IF o.op \in {"put", "get", "cleanup_old_data"}
    THEN [op |-> o.op, worker |-> o.worker, hash |-> o.hash,
          status |-> o.status, rows |-> o.rows, missed |-> o.missed]
    ELSE <<>>

\* put(contentHash, result, confidence): INSERT; when the unique constraint
\* rejects it, an identical stored result is a no-op and a different one a
\* ConflictError.
Put(w, h, res, conf) ==
    /\ pc[w] = "idle" \/ pending[w] = h
    /\ extraction_cache' = InsertCache(extraction_cache, NewCacheRow(h, res, conf, now))
    /\ last' = [Outcome("put", w, h,
                    IF ~CacheUniqueViolation(extraction_cache, h) THEN "ok"
                    ELSE IF \E r \in CacheRows(extraction_cache, h) :
                                r.extraction_result = res
                         THEN "ok" ELSE "ConflictError")
                 EXCEPT !.rows = IF CacheUniqueViolation(extraction_cache, h) THEN 0 ELSE 1,
                        !.result = res, !.confidence = conf,
                        !.missed = (pc[w] = "missed")]
    /\ pc' = [pc EXCEPT ![w] = "idle"]
    /\ pending' = [pending EXCEPT ![w] = NoHash]
    /\ UNCHANGED <<now, demo_sessions, quality_metrics>>

\* get(contentHash): on a hit the row is touched and returned in one
\* statement; a miss returns absent and leaves the worker to compute.
Get(w, h) ==
    /\ pc[w] = "idle"
    /\ \A r \in CacheRows(extraction_cache, h) : r.access_count < MaxAccess
    /\ IF CacheRows(extraction_cache, h) = {}
       THEN /\ extraction_cache' = extraction_cache
            /\ last' = [Outcome("get", w, h, "absent") EXCEPT
                           !.after = Preceding(last)]
            /\ pc' = [pc EXCEPT ![w] = "missed"]
            /\ pending' = [pending EXCEPT ![w] = h]
       ELSE /\ extraction_cache' =
                  (extraction_cache \ CacheRows(extraction_cache, h))
                  \cup {Touch(r, now) : r \in CacheRows(extraction_cache, h)}
            /\ \E r \in CacheRows(extraction_cache, h) :
                  last' = [Outcome("get", w, h, "hit") EXCEPT
                              !.result = r.extraction_result,
                              !.confidence = r.confidence_score,
                              !.access_count = r.access_count + 1,
                              !.after = Preceding(last)]
            /\ UNCHANGED <<pc, pending>>
    /\ UNCHANGED <<now, demo_sessions, quality_metrics>>

\* The external computation after a miss fails: nothing is put.
ComputeFails(w) ==
    /\ pc[w] = "missed"
    /\ pc' = [pc EXCEPT ![w] = "idle"]
    /\ pending' = [pending EXCEPT ![w] = NoHash]
    /\ last' = Outcome("computeFails", w, pending[w], "ok")
    /\ UNCHANGED <<now, extraction_cache, demo_sessions, quality_metrics>>

\* ------------------------------------------------------------ demo_sessions
\* A session row, with the columns the view and the cleanup read (file_name,
\* file_size, jira_ticket_key, error_message, ip_address and user_agent are
\* carried by no statement and left out).
SessionRow(id, h, ok, jira, q, lat, t) ==
    [session_id |-> id, file_hash |-> h, extraction_success |-> ok,
     jira_ticket_created |-> jira, quality_score |-> q, latency_ms |-> lat,
     created_at |-> t]

\* The demonstration rows of init.sql (quality scores in hundredths).  Their
\* offsets of at most two hours are below the clock's resolution.
SeedSessions(t) ==
    {SessionRow("demo001", "hash001", TRUE, TRUE, 92, 6200, t),
     SessionRow("demo002", "hash002", TRUE, TRUE, 88, 5800, t),
     SessionRow("demo003", "hash003", TRUE, FALSE, 75, 7200, t)}

\* session_id VARCHAR(16) UNIQUE NOT NULL.
SessionUniqueOff(sessions, id) == FALSE
SessionUniqueViolation(sessions, id) == \E r \in sessions : r.session_id = id

\* INSERT INTO demo_sessions (...) VALUES (...) ON CONFLICT (session_id)
\* DO NOTHING: a row whose session_id is present is skipped without an error.
InsertSessionUpsert(sessions, row) ==
    {r \in sessions : r.session_id # row.session_id} \cup {row}
InsertSession(sessions, row) ==
    IF SessionUniqueViolation(sessions, row.session_id)
    THEN sessions
    ELSE sessions \cup {row}

\* -------------------------------------------------------------- arithmetic
RECURSIVE Gcd(_, _)
Gcd(a, b) == IF b = 0 THEN a ELSE Gcd(b, a % b)

Abs(x) == IF x < 0 THEN -x ELSE x

\* A fraction n/d in lowest terms with d > 0; NoValue is SQL's NULL.
NoValue == <<>>
Frac(n, d) ==
    LET g == Gcd(Abs(n), Abs(d))
        s == IF d < 0 THEN -1 ELSE 1
    IN  <<(s * n) \div g, (s * d) \div g>>
FracAdd(x, y) == Frac(x[1] * y[2] + y[1] * x[2], x[2] * y[2])
FracSub(x, y) == Frac(x[1] * y[2] - y[1] * x[2], x[2] * y[2])
FracDiv(x, k) == Frac(x[1], x[2] * k)

\* The assignment cast of a numeric to an INTEGER column: to the nearest
\* integer, a tie away from zero.
ToIntegerTrunc(x) ==
    IF x = NoValue THEN NULL ELSE x[1] \div x[2]
ToInteger(x) ==
    IF x = NoValue THEN NULL
    ELSE IF x[1] >= 0 THEN (2 * x[1] + x[2]) \div (2 * x[2])
    ELSE -((2 * (-x[1]) + x[2]) \div (2 * x[2]))

\* SUM(col) over a set of rows.
RECURSIVE SumOf(_, _)
SumOf(rows, col) ==
    IF rows = {} THEN 0
    ELSE LET r == CHOOSE x \in rows : TRUE
         IN  r[col] + SumOf(rows \ {r}, col)

\* AVG(col): over the rows whose col is not NULL; NULL when there is none.
Avg(rows, col) ==
    LET some == {r \in rows : r[col] # NULL}
    IN  IF some = {} THEN NoValue ELSE Frac(SumOf(some, col), Cardinality(some))

\* ---------------------------------------------------------------- daily_stats
\* One row of the view for the sessions of one day.
StatsRowCountQuality(d, rows) ==
    [date |-> d,
     total_sessions |-> Cardinality({r \in rows : r.quality_score # NULL}),
     successful_extractions |-> Cardinality({r \in rows : r.extraction_success}),
     jira_tickets |-> Cardinality({r \in rows : r.jira_ticket_created}),
     avg_quality |-> Avg(rows, "quality_score"),
     avg_latency_ms |-> Avg(rows, "latency_ms")]
StatsRowSwapped(d, rows) ==
    [date |-> d,
     total_sessions |-> Cardinality({r \in rows : r.extraction_success}),
     successful_extractions |-> Cardinality(rows),
     jira_tickets |-> Cardinality({r \in rows : r.jira_ticket_created}),
     avg_quality |-> Avg(rows, "quality_score"),
     avg_latency_ms |-> Avg(rows, "latency_ms")]
StatsRow(d, rows) ==
    [date |-> d,
     total_sessions |-> Cardinality(rows),
     successful_extractions |-> Cardinality({r \in rows : r.extraction_success}),
     jira_tickets |-> Cardinality({r \in rows : r.jira_ticket_created}),
     avg_quality |-> Avg(rows, "quality_score"),
     avg_latency_ms |-> Avg(rows, "latency_ms")]

\* Variant grouped over a calendar: one row for every day from the first to
\* the last session, the days without a session included.
daily_stats_calendar(sessions) ==
    {StatsRow(d, {r \in sessions : DATE(r.created_at) = d}) :
        d \in UNION {DATE(a.created_at)..DATE(b.created_at) : a, b \in sessions}}
\* SELECT ... FROM demo_sessions GROUP BY DATE(created_at).
daily_stats(sessions) ==
    {StatsRow(d, {r \in sessions : DATE(r.created_at) = d}) :
        d \in {DATE(r.created_at) : r \in sessions}}

\* ------------------------------------------------------------ quality_metrics
MetricsRows(metrics, d) == {m \in metrics : m.date = d}

\* CREATE UNIQUE INDEX idx_quality_metrics_date ON quality_metrics(date).
MetricsUniqueOff(metrics, d) == FALSE
MetricsUniqueViolation(metrics, d) == \E m \in metrics : m.date = d

\* The quality_metrics row holding one row of daily_stats: avg_quality goes to
\* the FLOAT avg_confidence_score, avg_latency_ms is cast to the INTEGER
\* avg_latency_ms, total_cost_eur keeps its default.
MetricsRow(s, t) ==
    [date |-> s.date,
     total_extractions |-> s.total_sessions,
     successful_extractions |-> s.successful_extractions,
     avg_confidence_score |-> s.avg_quality,
     avg_latency_ms |-> ToInteger(s.avg_latency_ms),
     jira_tickets_created |-> s.jira_tickets,
     total_cost_eur |-> CostDefault,
     created_at |-> t]

\* The columns of a DailyMetrics row (created_at is bookkeeping of the table).
DailyMetrics(m) ==
    [date |-> m.date, totalCount |-> m.total_extractions,
     successCount |-> m.successful_extractions,
     sideEffectCount |-> m.jira_tickets_created,
     avgQualityScore |-> m.avg_confidence_score,
     avgLatencyMs |-> m.avg_latency_ms, totalCostEur |-> m.total_cost_eur]

\* Upsert of one row on the date index: a present row keeps its created_at.
UpsertMetrics(metrics, row) ==
    IF MetricsUniqueViolation(metrics, row.date)
    THEN {m \in metrics : m.date # row.date}
         \cup {[row EXCEPT !.created_at = m.created_at] : m \in MetricsRows(metrics, row.date)}
    ELSE metrics \cup {row}

RECURSIVE UpsertAll(_, _)
UpsertAll(metrics, rows) ==
    IF rows = {} THEN metrics
    ELSE LET r == CHOOSE x \in rows : TRUE
         IN  UpsertAll(UpsertMetrics(metrics, r), rows \ {r})

\* rebuild(dateRange): the rows of daily_stats in the range replace the
\* quality_metrics rows of their dates.
Rebuilt(metrics, sessions, lo, hi, t) ==
    UpsertAll(metrics,
        {MetricsRow(s, t) : s \in {x \in daily_stats(sessions) : lo <= x.date /\ x.date <= hi}})

Rebuild(lo, hi) ==
    /\ lo <= hi
    /\ quality_metrics' = Rebuilt(quality_metrics, demo_sessions, lo, hi, now)
    /\ last' = [Outcome("rebuild", "", NoHash, "ok") EXCEPT !.range = <<lo, hi>>]
    /\ UNCHANGED <<now, extraction_cache, demo_sessions, pc, pending>>

\* The running mean avg_new = avg_old + (value - avg_old) / newCount; a NULL
\* value leaves the mean alone and the first value is the mean.
RunningMean(avg, value, newCount) ==
    IF value = NULL THEN avg
    ELSE IF avg = NoValue THEN Frac(value, 1)
    ELSE FracAdd(avg, FracDiv(FracSub(Frac(value, 1), avg), newCount))

\* recordSession(record): fold one appended session into the row of its date.
Folded(m, r) ==
    [m EXCEPT
        !.total_extractions = m.total_extractions + 1,
        !.successful_extractions =
            m.successful_extractions + (IF r.extraction_success THEN 1 ELSE 0),
        !.jira_tickets_created =
            m.jira_tickets_created + (IF r.jira_ticket_created THEN 1 ELSE 0),
        !.avg_confidence_score =
            RunningMean(m.avg_confidence_score, r.quality_score, m.total_extractions + 1),
        !.avg_latency_ms =
            ToInteger(RunningMean(
                IF m.avg_latency_ms = NULL THEN NoValue ELSE Frac(m.avg_latency_ms, 1),
                r.latency_ms, m.total_extractions + 1))]

\* A fresh quality_metrics row for a date: the counters at their defaults.
EmptyMetrics(d, t) ==
    [date |-> d, total_extractions |-> CountDefault,
     successful_extractions |-> CountDefault,
     avg_confidence_score |-> NoValue, avg_latency_ms |-> NULL,
     jira_tickets_created |-> CountDefault, total_cost_eur |-> CostDefault,
     created_at |-> t]

recordSession(metrics, r, t) ==
    LET d == DATE(r.created_at)
    IN  IF MetricsUniqueViolation(metrics, d)
        THEN {m \in metrics : m.date # d}
             \cup {Folded(m, r) : m \in MetricsRows(metrics, d)}
        ELSE metrics \cup {Folded(EmptyMetrics(d, t), r)}

\* append(record): the INSERT of init.sql for one record, stamped with the
\* current time; on each ledger append the aggregator folds the record in.
AppendSession(id, h, ok, jira, q, lat) ==
    LET row == SessionRow(id, h, ok, jira, q, lat, now)
        after == InsertSession(demo_sessions, row)
        inserted == row \in after /\ row \notin demo_sessions
    IN  /\ demo_sessions' = after
        /\ quality_metrics' =
              IF inserted THEN recordSession(quality_metrics, row, now)
              ELSE quality_metrics
        /\ last' = [Outcome("append", "", id, "ok") EXCEPT
                       !.rows = IF inserted THEN 1 ELSE 0]
        /\ UNCHANGED <<now, extraction_cache, pc, pending>>

\* query(filter, timeRange) with a filter on file_hash (the indexed column):
\* the matching sessions; the outcome carries their number.
SessionsWithHash(sessions, h) == {r \in sessions : r.file_hash = h}
QueryByHash(h) ==
    /\ last' = [Outcome("query", "", h, "ok") EXCEPT
                   !.rows = Cardinality(SessionsWithHash(demo_sessions, h))]
    /\ UNCHANGED <<now, extraction_cache, demo_sessions, quality_metrics,
                   pc, pending>>

\* ----------------------------------------------------------- cleanup_old_data
SessionsKeptCacheWindow(sessions, t) ==
    {r \in sessions : ~(r.created_at < t - Days(CacheRetentionDays))}
SessionsKept(sessions, t) ==
    {r \in sessions : ~(r.created_at < t - Days(SessionRetentionDays))}
CacheKeptByCreation(cache, t) ==
    {r \in cache : ~(r.created_at < t - Days(CacheRetentionDays))}
CacheKept(cache, t) ==
    {r \in cache : ~(r.accessed_at < t - Days(CacheRetentionDays))}
MetricsKeptSessionWindow(metrics, t) ==
    {m \in metrics : ~(m.created_at < t - Days(SessionRetentionDays))}
MetricsKept(metrics, t) ==
    {m \in metrics : ~(m.created_at < t - Days(MetricsRetentionDays))}

\* The three tables as one value, for the statements that run on them in turn.
Database ==
    [sessions |-> demo_sessions, cache |-> extraction_cache,
     metrics |-> quality_metrics]

RowCount(db) ==
    Cardinality(db.sessions) + Cardinality(db.cache) + Cardinality(db.metrics)

DeleteSessions(db, t) == [db EXCEPT !.sessions = SessionsKept(db.sessions, t)]
\* Variant with a cascading reference from demo_sessions.file_hash.
DeleteCacheCascade(db, t) ==
    [db EXCEPT !.cache = CacheKept(db.cache, t),
               !.sessions = {r \in db.sessions :
                   \A c \in db.cache \ CacheKept(db.cache, t) :
                       r.file_hash # c.file_hash}]
DeleteCache(db, t) == [db EXCEPT !.cache = CacheKept(db.cache, t)]
\* Variant that also drops the metrics rows of dates left without a session.
DeleteMetricsOrphans(db, t) ==
    [db EXCEPT !.metrics =
        {m \in MetricsKept(db.metrics, t) :
            \E r \in db.sessions : DATE(r.created_at) = m.date}]
DeleteMetrics(db, t) == [db EXCEPT !.metrics = MetricsKept(db.metrics, t)]

\* The DELETE statements in the order of the function body.
Passes == <<"sessions", "cache", "metrics">>

RunPass(pass, db, t) ==
    CASE pass = "sessions" -> DeleteSessions(db, t)
      [] pass = "cache"    -> DeleteCache(db, t)
      [] pass = "metrics"  -> DeleteMetrics(db, t)

RECURSIVE RunPasses(_, _, _)
RunPasses(order, db, t) ==
    IF order = <<>> THEN db
    ELSE RunPasses(Tail(order), RunPass(Head(order), db, t), t)

\* Variant in which every DELETE before the failing one stays committed.
AbortedKeepingEarlier(order, k, db, t) == RunPasses(SubSeq(order, 1, k - 1), db, t)
\* The k-th DELETE raises. The function body has no EXCEPTION block, so the
\* error leaves the function and the statement that called it is undone as a
\* whole: the DELETEs that ran before the failing one are rolled back.
Aborted(order, k, db, t) == db

\* runRetention(now): the three DELETEs of cleanup_old_data, in one call.
cleanup_old_data ==
    LET after == RunPasses(Passes, Database, now)
    IN  /\ demo_sessions' = after.sessions
        /\ extraction_cache' = after.cache
        /\ quality_metrics' = after.metrics
        /\ last' = [Outcome("cleanup_old_data", "", NoHash, "ok") EXCEPT
                       !.rows = RowCount(Database) - RowCount(after)]
        /\ UNCHANGED <<now, pc, pending>>

\* runRetention(now) in which the k-th DELETE raises an error.
cleanup_old_data_fails(k) ==
    LET after == Aborted(Passes, k, Database, now)
    IN  /\ demo_sessions' = after.sessions
        /\ extraction_cache' = after.cache
        /\ quality_metrics' = after.metrics
        /\ last' = [Outcome("cleanup_old_data", "", Passes[k], "StorageError")
                       EXCEPT !.rows = RowCount(Database) - RowCount(after)]
        /\ UNCHANGED <<now, pc, pending>>

\* ------------------------------------------------------------------- clock
Tick(instants) ==
    /\ \E t \in instants : t > now /\ now' = t
    /\ last' = Outcome("tick", "", NoHash, "ok")
    /\ UNCHANGED <<extraction_cache, demo_sessions, quality_metrics, pc, pending>>

\* ------------------------------------------------------------- stub servers
\* A request: its method and its URL, the URL as the segments of its path
\* ("/" is <<"">>, "/health" is <<"health">>, "/download/" is
\* <<"download", "">>) and its query string.
Methods == {"GET", "POST", "OPTIONS", "HEAD"}
Paths ==
    {<<"">>, <<"health">>, <<"api", "v1", "contract", "analyze">>,
     <<"api", "v1", "contract">>, <<"download", "contract-summary.pdf">>,
     <<"download", "">>, <<"download">>}
Queries == {"", "t=1"}
Requests == [method : Methods, path : Paths, query : Queries]

MaxRequests == 3

\* The http.createServer handlers of the repository.
Servers ==
    {"working_backend", "minimal", "railway", "ultra_minimal",
     "minimal_working", "ultra_simple", "railway_minimal", "debug"}

\* Variant in which the health rule does not answer "/".
TargetMatchesHealthOnly(target, path) ==
    CASE target = "any"      -> TRUE
      [] target = "health"   -> path = <<"health">>
      [] target = "/health"  -> path = <<"health">>
      [] target = "/"        -> FALSE
      [] target = "analyze"  -> path = <<"api", "v1", "contract", "analyze">>
      [] target = "download" -> Len(path) >= 2 /\ path[1] = "download"
\* The URL tests of the handlers: req.url === '/health' || req.url === '/',
\* req.url === '/api/v1/contract/analyze', req.url.startsWith('/download/').
TargetMatches(target, path) ==
    CASE target = "any"      -> TRUE
      [] target = "health"   -> path \in {<<"">>, <<"health">>}
      [] target = "/health"  -> path = <<"health">>
      [] target = "/"        -> path = <<"">>
      [] target = "analyze"  -> path = <<"api", "v1", "contract", "analyze">>
      [] target = "download" -> Len(path) >= 2 /\ path[1] = "download"

\* Variant of a branch that does not return after res.end().
RuleFallingThrough(method, target, pathname, body) ==
    [method |-> method, target |-> target, pathname |-> pathname,
     status |-> 200, body |-> body, returns |-> FALSE]
\* One branch of a handler: the method it asks for ("ANY" when it asks for
\* none), the URL test, whether the test reads url.parse(req.url).pathname
\* instead of req.url, and the body it sends with res.writeHead(200).  Every
\* branch ends the handler, by a return or as an arm of an if/else chain.
Rule(method, target, pathname, body) ==
    [method |-> method, target |-> target, pathname |-> pathname,
     status |-> 200, body |-> body, returns |-> TRUE]

\* A test on req.url compares the whole string, query included; startsWith
\* and a test on the pathname do not see the query.
Matches(rule, req) ==
    /\ rule.method \in {"ANY", req.method}
    /\ TargetMatches(rule.target, req.path)
    /\ rule.pathname \/ rule.target \in {"any", "download"} \/ req.query = ""

Preflight == Rule("OPTIONS", "any", FALSE, "empty")
Health == Rule("ANY", "health", FALSE, "health")
Analyze == Rule("POST", "analyze", FALSE, "analysis")
Download == Rule("GET", "download", FALSE, "pdf")

\* The branches of each handler, in the order of its code.
Rules(server) ==
    CASE server = "working_backend" -> <<Preflight, Health, Analyze, Download>>
      [] server = "minimal"         -> <<Health>>
      [] server = "railway"         -> <<Preflight, Health, Analyze, Download>>
      [] server = "ultra_minimal"   ->
            <<Rule("OPTIONS", "any", TRUE, "empty"),
              Rule("ANY", "/health", TRUE, "health"),
              Rule("ANY", "/", TRUE, "index")>>
      [] server = "minimal_working" ->
            <<Preflight, Health, Analyze, Rule("ANY", "download", FALSE, "pdf")>>
      [] server = "ultra_simple"    -> <<Preflight, Health, Analyze, Download>>
      [] server = "railway_minimal" -> <<Preflight, Health, Analyze, Download>>
      [] server = "debug"           -> <<Preflight, Health, Analyze>>

\* res.writeHead(status); res.end(body).  The "/" branch of the ultra
\* minimal server sends index.html when fs.readFileSync can read it and the
\* health JSON from its catch block otherwise.
Response(rule, indexReadable) ==
    [status |-> rule.status,
     body |-> IF rule.body # "index" THEN rule.body
              ELSE IF indexReadable THEN "html" ELSE "health"]

NotFound == [status |-> 404, body |-> "error"]

\* Every res.end() the handler runs for a request, in order: the branches are
\* tried in turn and the code after them sends the 404.
RECURSIVE Responses(_, _, _)
Responses(rules, req, indexReadable) ==
    IF rules = <<>> THEN <<NotFound>>
    ELSE IF Matches(Head(rules), req)
         THEN <<Response(Head(rules), indexReadable)>>
              \o (IF Head(rules).returns THEN <<>>
                  ELSE Responses(Tail(rules), req, indexReadable))
         ELSE Responses(Tail(rules), req, indexReadable)

\* The number of requests served before this one.
Served == IF last.op = "request" THEN last.served ELSE 0

\* One request to one server; the client sees the responses.
Serve(server, req, indexReadable) ==
    /\ Served < MaxRequests
    /\ last' = [op |-> "request", server |-> server, method |-> req.method,
                path |-> req.path, query |-> req.query,
                responses |-> Responses(Rules(server), req, indexReadable),
                indexReadable |-> indexReadable,
                served |-> Served + 1]
    /\ UNCHANGED <<now, extraction_cache, demo_sessions, quality_metrics,
                   pc, pending>>

\* ----------------------------------------------------------- specifications
\* The database after init.sql has run on an empty schema.
Init ==
    /\ now = 0
    /\ extraction_cache = {}
    /\ demo_sessions = SeedSessions(0)
    /\ quality_metrics = {}
    /\ pc = [w \in Workers |-> "idle"]
    /\ pending = [w \in Workers |-> NoHash]
    /\ last = Outcome("init", "", NoHash, "ok")

SessionIds == {"demo001", "s1", "s2"}
\* The attempts recorded: success, side effect, quality score (hundredths) and
\* latency; a failed attempt may still have created its side effect.
Attempts ==
    {<<TRUE, TRUE, 80, 100>>, <<TRUE, FALSE, NULL, 200>>,
     <<FALSE, TRUE, NULL, 300>>, <<FALSE, FALSE, 80, 201>>}
CacheTimes == {t \in Times : t <= Days(CacheRetentionDays) + 1}
LedgerTimes == {t \in Times : t <= 1 \/ t = Days(SessionRetentionDays) + 1}
Dates == {DATE(t) : t \in LedgerTimes}

AllTimes == {t \in Times : t <= Days(SessionRetentionDays) + 1}

CacheOps(hashes, payloads) ==
    \/ \E w \in Workers, h \in hashes, p \in payloads : Put(w, h, p[1], p[2])
    \/ \E w \in Workers, h \in hashes : Get(w, h)
    \/ \E w \in Workers : ComputeFails(w)

LedgerOps(ids, hashes, attempts) ==
    \/ \E id \in ids, h \in hashes, a \in attempts :
          AppendSession(id, h, a[1], a[2], a[3], a[4])
    \/ \E lo \in Dates, hi \in Dates : Rebuild(lo, hi)

\* The cache under its workers, the clock and the cleanup.
NextCache == CacheOps(Hashes, Payloads) \/ Tick(CacheTimes) \/ cleanup_old_data
SpecCache == Init /\ [][NextCache]_vars

\* The ledger and its metrics under appends, rebuilds and the cleanup.
NextLedger == LedgerOps(SessionIds, {NoHash}, Attempts) \/ Tick(LedgerTimes) \/ cleanup_old_data
SpecLedger == Init /\ [][NextLedger]_vars

\* The whole store: sessions that reference the cached hash.
Next ==
    \/ CacheOps({"hash001"}, {<<"A", 90>>, <<"B", 90>>})
    \/ LedgerOps({"demo001", "s1"}, {"hash001"}, {<<TRUE, TRUE, 80, 100>>, <<FALSE, TRUE, NULL, 201>>})
    \/ QueryByHash("hash001")
    \/ Tick(AllTimes)
    \/ cleanup_old_data
Spec == Init /\ [][Next]_vars

\* The retention specification: one cache entry, one new session, and a clock
\* that passes each of the three retention windows; a sweep may fail at any of
\* its statements.
NextRetention ==
    \/ CacheOps({"hash001"}, {<<"A", 90>>})
    \/ LedgerOps({"s1"}, {"hash001"}, {<<TRUE, TRUE, 80, 100>>})
    \/ Tick(Times)
    \/ cleanup_old_data
    \/ \E k \in 1..Len(Passes) : cleanup_old_data_fails(k)
SpecRetention == Init /\ [][NextRetention]_vars

\* The cache under a clock that keeps advancing: time passes whatever the
\* workers do, until the last instant of the cache's clock.
NextCount == CacheOps(Hashes, {<<"A", 90>>}) \/ Tick(CacheTimes) \/ cleanup_old_data
SpecCount == Init /\ [][NextCount]_vars /\ WF_vars(Tick(CacheTimes))

\* The aggregator's two paths: three new sessions, each folded as it lands,
\* and rebuilds, on the day of the seed rows and on a later day without any.
NextFold ==
    \/ LedgerOps({"s1", "s2", "s3"}, {NoHash}, Attempts)
    \/ Tick({Days(SessionRetentionDays) + 1})
SpecFold == Init /\ [][NextFold]_vars

\* The stub servers under a sequence of requests.
NextHttp ==
    \E server \in Servers, req \in Requests, indexReadable \in BOOLEAN :
        Serve(server, req, indexReadable)
SpecHttp == Init /\ [][NextHttp]_vars

\* ------------------------------------------------------------------- claims
OneRow(rows, r) == rows = {r}

\* C1: a put on an absent hash stores the payload with accessCount 1; every
\* later get of the hash returns that result and confidence unchanged and
\* raises accessCount by exactly one; nothing else changes a row that stays.
C1_Step ==
    \A h \in Hashes :
        LET before == CacheRows(extraction_cache, h)
            after == CacheRows(extraction_cache', h)
            isGet == last'.op = "get" /\ last'.hash = h
        IN  /\ (last'.op = "put" /\ last'.hash = h /\ before = {}) =>
                  \E r \in after :
                     /\ OneRow(after, r)
                     /\ r.extraction_result = last'.result
                     /\ r.confidence_score = last'.confidence
                     /\ r.access_count = 1
            /\ (isGet /\ before # {}) =>
                  \E r \in before, r2 \in after :
                     /\ OneRow(before, r) /\ OneRow(after, r2)
                     /\ last'.status = "hit"
                     /\ last'.result = r.extraction_result
                     /\ last'.confidence = r.confidence_score
                     /\ r2.extraction_result = r.extraction_result
                     /\ r2.confidence_score = r.confidence_score
                     /\ r2.access_count = r.access_count + 1
                     /\ last'.access_count = r2.access_count
            /\ (~isGet /\ before # {} /\ after # {}) => after = before
C1_PutThenGets == [][C1_Step]_vars

\* C1 witness: the second hit after a put, at accessCount 3.
C1_Witness ==
    /\ last.op = "get" /\ last.status = "hit"
    /\ last.access_count = AccessCountDefault + 2
    /\ \E r \in extraction_cache :
          r.file_hash = last.hash /\ r.access_count = last.access_count

\* C2: a put whose result equals the stored result of its hash succeeds,
\* writes no row and leaves the cache (accessCount and lastAccessedAt of the
\* entry included) as it was.
C2_Step ==
    (/\ last'.op = "put"
     /\ \E r \in CacheRows(extraction_cache, last'.hash) :
           r.extraction_result = last'.result)
    => /\ last'.status = "ok"
       /\ last'.rows = 0
       /\ extraction_cache' = extraction_cache
C2_PutIdempotent == [][C2_Step]_vars

\* C2 witness: an accepted put that wrote nothing, on an entry already hit and
\* with another confidence than the stored one.
C2_Witness ==
    /\ last.op = "put" /\ last.status = "ok" /\ last.rows = 0
    /\ \E r \in extraction_cache :
          /\ r.file_hash = last.hash
          /\ r.access_count > AccessCountDefault
          /\ r.confidence_score # last.confidence

\* C3: a put whose result differs from the stored result of its hash fails
\* with ConflictError and leaves the cache as it was.
C3_Step ==
    (/\ last'.op = "put"
     /\ CacheRows(extraction_cache, last'.hash) # {}
     /\ \A r \in CacheRows(extraction_cache, last'.hash) :
           r.extraction_result # last'.result)
    => /\ last'.status = "ConflictError"
       /\ last'.rows = 0
       /\ extraction_cache' = extraction_cache
C3_PutConflict == [][C3_Step]_vars

\* C3 witness: a refused put, the entry of its hash still holding another
\* result.
C3_Witness ==
    /\ last.op = "put" /\ last.status = "ConflictError"
    /\ \E r \in extraction_cache :
          r.file_hash = last.hash /\ r.extraction_result # last.result

\* C4: the cache holds at most one entry per content hash.
C4_OneEntryPerHash ==
    \A r1 \in extraction_cache, r2 \in extraction_cache :
        r1.file_hash = r2.file_hash => r1 = r2

\* C4 witness: a worker that missed on a hash puts it and finds the entry
\* another worker stored meanwhile.
C4_Witness ==
    /\ last.op = "put" /\ last.missed /\ last.rows = 0
    /\ Cardinality(CacheRows(extraction_cache, last.hash)) = 1


\* C5 as claimed: an append whose sessionId is in the ledger fails with
\* DuplicateSessionError and leaves the ledger as it was.
C5_OriginalStep ==
    (last'.op = "append" /\ SessionUniqueViolation(demo_sessions, last'.hash))
    => /\ last'.status = "DuplicateSessionError"
       /\ demo_sessions' = demo_sessions
C5_AmendedStep ==
    (last'.op = "append" /\ SessionUniqueViolation(demo_sessions, last'.hash))
    => /\ last'.status = "ok"
       /\ last'.rows = 0
       /\ demo_sessions' = demo_sessions
       /\ quality_metrics' = quality_metrics
C6_Step ==
    \A r \in demo_sessions :
        \/ r \in demo_sessions'
        \/ /\ last'.op = "cleanup_old_data"
           /\ r.created_at < now - Days(SessionRetentionDays)
           /\ ~SessionUniqueViolation(demo_sessions', r.session_id)
C6_AppendOnly == [][C6_Step]_vars

\* C6 witness: a cleanup that evicted the cache entry and purged the seed
\* sessions while a session exactly one window old stayed.
C6_Witness ==
    /\ last.op = "cleanup_old_data" /\ last.rows > Cardinality(SeedSessions(0))
    /\ extraction_cache = {}
    /\ ~SessionUniqueViolation(demo_sessions, "demo002")
    /\ \E r \in demo_sessions : r.created_at = now - Days(SessionRetentionDays)

SessionsOn(d) == {r \in demo_sessions : DATE(r.created_at) = d}
InRange(d) == last.range[1] <= d /\ d <= last.range[2]

FailedWithSideEffect(d) ==
    {r \in SessionsOn(d) : r.jira_ticket_created /\ ~r.extraction_success}

\* C8 as claimed: sideEffectCount <= successCount in every DailyMetrics row,
\* stored or viewed.
C8_SideEffectsWithinSuccesses ==
    /\ \A s \in daily_stats(demo_sessions) :
          s.jira_tickets <= s.successful_extractions
    /\ \A m \in quality_metrics :
          m.jira_tickets_created <= m.successful_extractions

\* C8 amended: sideEffectCount <= totalCount in every row; over the sessions
\* of a day sideEffectCount exceeds successCount by at most the number of
\* failed sessions that created a side effect, so it is within successCount
\* on the days that have none.
C8_SideEffectsWithinTotal ==
    /\ \A m \in quality_metrics : m.jira_tickets_created <= m.total_extractions
    /\ \A s \in daily_stats(demo_sessions) :
          /\ s.jira_tickets <= s.total_sessions
          /\ s.jira_tickets <=
                s.successful_extractions + Cardinality(FailedWithSideEffect(s.date))
    /\ last.op = "rebuild" =>
          \A m \in quality_metrics :
              (InRange(m.date) /\ SessionsOn(m.date) # {}
                 /\ FailedWithSideEffect(m.date) = {})
              => m.jira_tickets_created <= m.successful_extractions

\* C8 witness: a stored row whose only session failed and created its side
\* effect.
C8_Witness ==
    /\ \E m \in quality_metrics :
          /\ m.total_extractions = 1
          /\ m.successful_extractions = 0
          /\ m.jira_tickets_created = 1
    /\ \E s \in daily_stats(demo_sessions) :
          s.jira_tickets > s.successful_extractions

\* C9: successCount <= totalCount in every DailyMetrics row, stored or viewed.
C9_SuccessesWithinTotal ==
    /\ \A m \in quality_metrics : m.successful_extractions <= m.total_extractions
    /\ \A s \in daily_stats(demo_sessions) :
          s.successful_extractions <= s.total_sessions

\* C9 witness: after appends, a rebuild and a cleanup that deleted rows, a row
\* with some but not all sessions successful.
C9_Witness ==
    /\ last.op = "cleanup_old_data" /\ last.rows > 0
    /\ \E m \in quality_metrics :
          /\ 0 < m.successful_extractions
          /\ m.successful_extractions < m.total_extractions
          /\ m.total_extractions > Cardinality(SeedSessions(0))

SameDailyMetrics(a, b) ==
    /\ {DailyMetrics(m) : m \in a} = {DailyMetrics(m) : m \in b}
    /\ Cardinality(a) = Cardinality(b)

\* C10: for every range, a rebuild run again on the same ledger, at once or
\* later, leaves the DailyMetrics rows the first run left.
C10_RebuildIdempotent ==
    \A lo \in Dates, hi \in Dates, t \in LedgerTimes :
        (lo <= hi /\ t >= now) =>
            LET once == Rebuilt(quality_metrics, demo_sessions, lo, hi, now)
            IN  SameDailyMetrics(Rebuilt(once, demo_sessions, lo, hi, t), once)

\* C10 witness: a rebuild that replaced the row the appends had folded for the
\* seed day by the row counting the seed sessions too.
C10_Witness ==
    /\ last.op = "rebuild"
    /\ \E m \in quality_metrics :
          /\ InRange(m.date)
          /\ m.created_at < now
          /\ m.total_extractions = Cardinality(SeedSessions(0)) + 2


Stale(r) == r.accessed_at < now - Days(CacheRetentionDays)

\* C11: a cleanup removes exactly the cache entries last accessed more than
\* the cache window ago, whatever their creation time: an old entry hit within
\* the window stays.
C11_Step ==
    (last'.op = "cleanup_old_data" /\ last'.status = "ok") =>
        /\ \A r \in extraction_cache : Stale(r) => r \notin extraction_cache'
        /\ \A r \in extraction_cache : ~Stale(r) => r \in extraction_cache'
        /\ extraction_cache' \subseteq extraction_cache
C11_EvictionByLastAccess == [][C11_Step]_vars

\* C11 witness: a cleanup that evicted an entry and kept another one created
\* more than the window ago but hit within it.
C11_Witness ==
    /\ last.op = "cleanup_old_data" /\ last.rows > 0
    /\ \A r \in extraction_cache : ~Stale(r)
    /\ \E r \in extraction_cache :
          /\ r.created_at < now - Days(CacheRetentionDays)
          /\ r.access_count > AccessCountDefault


\* C12: a cleanup never deletes a session created within the session window,
\* a cache entry accessed within the cache window, or a metrics row whose date
\* lies within the metrics window; metrics rows stay when their sessions go.
C12_Step ==
    last'.op = "cleanup_old_data" =>
        /\ \A r \in demo_sessions :
              r.created_at >= now - Days(SessionRetentionDays)
                  => r \in demo_sessions'
        /\ \A r \in extraction_cache :
              r.accessed_at >= now - Days(CacheRetentionDays)
                  => r \in extraction_cache'
        /\ \A m \in quality_metrics :
              Days(m.date) >= now - Days(MetricsRetentionDays)
                  => m \in quality_metrics'
C12_NoEarlyDeletion == [][C12_Step]_vars

\* C12 witness: a cleanup deleted rows and left a metrics row whose date has
\* no session any more.
C12_Witness ==
    /\ last.op = "cleanup_old_data" /\ last.status = "ok" /\ last.rows > 0
    /\ \E m \in quality_metrics :
          /\ Days(m.date) >= now - Days(MetricsRetentionDays)
          /\ ~\E r \in demo_sessions : DATE(r.created_at) = m.date


\* C13: evicting a cache entry deletes no session that references its hash
\* (sessions leave by age only), and append, query, rebuild and cleanup
\* succeed whether or not the hashes they meet are cached; a query returns
\* every session carrying the hash.
C13_Step ==
    /\ \A c \in extraction_cache :
          CacheRows(extraction_cache', c.file_hash) = {} =>
              \A r \in SessionsWithHash(demo_sessions, c.file_hash) :
                  \/ r \in demo_sessions'
                  \/ r.created_at < now - Days(SessionRetentionDays)
    /\ last'.op \in {"append", "query", "rebuild", "cleanup_old_data"} =>
          last'.status = "ok"
    /\ last'.op = "query" =>
          last'.rows = Cardinality(SessionsWithHash(demo_sessions', last'.hash))
C13_EvictionLeavesLedger == [][C13_Step]_vars

\* C13 witness: a cleanup inside the session window evicted cache entries and
\* a session still names a hash that is no longer cached.
C13_Witness ==
    /\ last.op = "cleanup_old_data" /\ last.rows > 0
    /\ now < Days(SessionRetentionDays)
    /\ \E r \in demo_sessions :
          r.session_id = "s1" /\ CacheRows(extraction_cache, r.file_hash) = {}

\* C13 witness of the later operations: a query on a hash that is not cached
\* returns the sessions that carry it.
C13_QueryWitness ==
    /\ last.op = "query" /\ last.rows > 0
    /\ CacheRows(extraction_cache, last.hash) = {}
    /\ now > Days(CacheRetentionDays)


\* The six orders in which the three DELETE statements can run.
Orders ==
    {o \in [1..Len(Passes) -> {Passes[i] : i \in 1..Len(Passes)}] :
        \A i, j \in 1..Len(Passes) : i # j => o[i] # o[j]}

\* The data-model invariants, on a value of the three tables.
DataModelInvariants(db) ==
    /\ \A r \in db.cache :
          /\ CacheRows(db.cache, r.file_hash) = {r}
          /\ r.access_count >= AccessCountDefault
          /\ r.accessed_at >= r.created_at
    /\ \A r, q \in db.sessions : r.session_id = q.session_id => r = q
    /\ \A m \in db.metrics :
          /\ MetricsRows(db.metrics, m.date) = {m}
          /\ m.successful_extractions <= m.total_extractions
          /\ m.jira_tickets_created <= m.total_extractions

\* C14: from every state and for the current instant, the three deletion
\* passes end in the same tables in each of the six orders, and the data-model
\* invariants hold after each single pass.
C14_OrderInsensitive ==
    \A o \in Orders :
        /\ RunPasses(o, Database, now) = RunPasses(Passes, Database, now)
        /\ \A k \in 0..Len(Passes) :
              DataModelInvariants(RunPasses(SubSeq(o, 1, k), Database, now))

\* C14 witness: a state in which each of the three passes has rows to delete,
\* so the orders pass through different intermediate tables.
C14_Witness ==
    /\ \A p \in {Passes[i] : i \in 1..Len(Passes)} :
          RunPass(p, Database, now) # Database
    /\ \E o \in Orders :
          RunPasses(SubSeq(o, 1, 1), Database, now)
              # RunPasses(SubSeq(Passes, 1, 1), Database, now)


\* The number of rows a pass would delete from the tables at the current
\* instant.
Eligible(pass) == RowCount(Database) - RowCount(RunPass(pass, Database, now))

OtherPasses(failed) == {Passes[i] : i \in 1..Len(Passes)} \ {failed}

\* C15 as stated: when one pass of a sweep fails, the sweep goes on and the
\* eligible rows of the other passes are deleted.
C15_OriginalStep ==
    (last'.op = "cleanup_old_data" /\ last'.status = "StorageError") =>
        \A p \in OtherPasses(last'.hash) : Eligible(p)' = 0
C15_SweepContinues == [][C15_OriginalStep]_vars

\* C15 amended: a sweep in which a DELETE fails deletes nothing at all, the
\* rows of the passes that ran before the failure included; a sweep without a
\* failure leaves no eligible row.
C15_AmendedStep ==
    /\ (last'.op = "cleanup_old_data" /\ last'.status = "StorageError") =>
          /\ Database' = Database
          /\ last'.rows = 0
    /\ (last'.op = "cleanup_old_data" /\ last'.status = "ok") =>
          \A p \in OtherPasses("") : Eligible(p)' = 0
C15_SweepAllOrNothing == [][C15_AmendedStep]_vars

\* C15 witness: a sweep failed in one pass and rows eligible for an earlier
\* pass are still in their table.
C15_Witness ==
    /\ last.op = "cleanup_old_data" /\ last.status = "StorageError"
    /\ last.hash = "metrics"
    /\ Eligible("sessions") > 0 /\ Eligible("cache") > 0


\* C16: every hit raises the entry's access_count by exactly one and sets
\* accessed_at to the instant of the hit; a hit that comes directly after
\* another worker's hit on the same hash counts on top of it, so no increment
\* is lost in any interleaving.
C16_Step ==
    (last'.op = "get" /\ last'.status = "hit") =>
        \E r \in extraction_cache :
            /\ CacheRows(extraction_cache, last'.hash) = {r}
            /\ CacheRows(extraction_cache', last'.hash) =
                  {[r EXCEPT !.access_count = r.access_count + 1,
                             !.accessed_at = now]}
            /\ r.accessed_at <= now
            /\ last'.access_count = r.access_count + 1
            /\ (/\ last.op = "get" /\ last.status = "hit"
                /\ last.hash = last'.hash /\ last.worker # last'.worker)
                  => last'.access_count = last.access_count + 1
Count(flag) == IF flag THEN 1 ELSE 0

\* C17: every session that an append inserts is folded into the one metrics
\* row of its date: total_extractions rises by one, successful_extractions
\* and jira_tickets_created by one when the session has the flag, so calls on
\* one date add up; the rows of the other dates are left as they were.
C17_Step ==
    (last'.op = "append" /\ last'.rows = 1) =>
        \E r \in demo_sessions' \ demo_sessions :
            LET d == DATE(r.created_at)
                before == MetricsRows(quality_metrics, d)
                Old(col) == IF before = {} THEN 0 ELSE SumOf(before, col)
            IN  /\ Cardinality(before) <= 1
                /\ \E n \in quality_metrics' :
                      /\ MetricsRows(quality_metrics', d) = {n}
                      /\ n.total_extractions = Old("total_extractions") + 1
                      /\ n.successful_extractions =
                            Old("successful_extractions")
                                + Count(r.extraction_success)
                      /\ n.jira_tickets_created =
                            Old("jira_tickets_created")
                                + Count(r.jira_ticket_created)
                /\ {m \in quality_metrics : m.date # d}
                      = {m \in quality_metrics' : m.date # d}
Complete(r) ==
    /\ r.file_hash \in Hashes
    /\ r.extraction_result # ""
    /\ r.access_count >= AccessCountDefault
    /\ r.created_at <= r.accessed_at /\ r.accessed_at <= now

\* C18: in every order of a lookup and a cleanup, the lookup returns the whole
\* entry or absence and never an error; an absent lookup writes no row, an
\* entry hit at an instant survives a cleanup at that instant, and the hash is
\* afterwards absent or present as exactly one complete entry.
C18_Step ==
    /\ last'.op = "get" =>
          /\ last'.status \in {"hit", "absent"}
          /\ last'.status = "absent" =>
                /\ CacheRows(extraction_cache, last'.hash) = {}
                /\ extraction_cache' = extraction_cache
          /\ last'.status = "hit" =>
                \E r \in CacheRows(extraction_cache', last'.hash) :
                    /\ Complete(r)'
                    /\ last'.result = r.extraction_result
                    /\ last'.confidence = r.confidence_score
                    /\ last'.access_count = r.access_count
    /\ last'.op = "cleanup_old_data" =>
          \A r \in extraction_cache :
              r.accessed_at = now => r \in extraction_cache'
    /\ \A h \in Hashes :
          \/ CacheRows(extraction_cache', h) = {}
          \/ \E r \in extraction_cache' :
                CacheRows(extraction_cache', h) = {r} /\ Complete(r)'
C18_LookupDuringCleanup == [][C18_Step]_vars


\* C18 witness: a lookup directly after the cleanup that evicted every entry
\* returns absence and the hash stays absent.
C18_Witness ==
    /\ last.op = "get" /\ last.status = "absent"
    /\ last.after # <<>>
    /\ last.after.op = "cleanup_old_data" /\ last.after.status = "ok"
    /\ last.after.rows = Cardinality(Hashes)
    /\ CacheRows(extraction_cache, last.hash) = {}

\* C18 witness of the other order: the lookup came first, and the cleanup at
\* the same instant kept the entry it had just touched.
C18_HitFirstWitness ==
    /\ last.op = "cleanup_old_data" /\ last.rows > 0
    /\ \E r \in extraction_cache :
          /\ r.accessed_at = now
          /\ r.access_count = AccessCountDefault + 1
          /\ r.created_at < now - Days(CacheRetentionDays)


Stored(cache, h) == \E r \in cache : r.file_hash = h

\* C19: a lookup computes only after a miss.  A lookup of a stored hash is a
\* hit that returns the stored result and leaves the worker idle, with no
\* computation; a lookup of a hash that is not stored is an absence, not an
\* error, and only it sends the worker to compute; a stored hash stays stored
\* until a cleanup evicts it.
C19_Step ==
    /\ last'.op = "get" =>
          IF Stored(extraction_cache, last'.hash)
          THEN /\ last'.status = "hit"
               /\ pc'[last'.worker] = "idle"
               /\ \E r \in extraction_cache :
                     /\ r.file_hash = last'.hash
                     /\ last'.result = r.extraction_result
                     /\ last'.confidence = r.confidence_score
          ELSE /\ last'.status = "absent"
               /\ pc'[last'.worker] = "missed"
               /\ pending'[last'.worker] = last'.hash
    /\ \A w \in Workers :
          (pc[w] # "missed" /\ pc'[w] = "missed") =>
              /\ last'.op = "get" /\ last'.worker = w
              /\ last'.status = "absent"
              /\ ~Stored(extraction_cache, last'.hash)
    /\ (last'.op = "put" /\ last'.missed) =>
          /\ pc[last'.worker] = "missed"
          /\ pending[last'.worker] = last'.hash
    /\ \A h \in Hashes :
          (Stored(extraction_cache, h) /\ ~Stored(extraction_cache', h)) =>
              last'.op = "cleanup_old_data"
C19_ComputeOnlyOnMiss == [][C19_Step]_vars

\* C19 witness: one worker missed, computed and stored the result; the next
\* worker's lookup of the hash is a hit on that result and computes nothing.
C19_Witness ==
    /\ last.op = "get" /\ last.status = "hit"
    /\ last.after # <<>>
    /\ last.after.op = "put" /\ last.after.missed /\ last.after.rows = 1
    /\ last.after.hash = last.hash /\ last.after.worker # last.worker
    /\ pc[last.worker] = "idle"
    /\ last.access_count = AccessCountDefault + 1


\* C20: every quality_metrics row and every daily_stats row counts at least
\* one session and is the only row of its date, and a row for a date that had
\* none appears only when the ledger holds a session of that date.
C20_Step ==
    /\ \A m \in quality_metrics' :
          /\ m.total_extractions >= 1
          /\ MetricsRows(quality_metrics', m.date) = {m}
          /\ MetricsRows(quality_metrics, m.date) = {} =>
                \E r \in demo_sessions' : DATE(r.created_at) = m.date
    /\ \A s \in daily_stats(demo_sessions') :
          /\ s.total_sessions >= 1
          /\ \A q \in daily_stats(demo_sessions') : q.date = s.date => q = s
C20_NoEmptyDay == [][C20_Step]_vars

\* C20 witness: sessions lie on two days with an empty day between them; a
\* rebuild over the whole range and the appends have produced the rows of the
\* two days and none for a day in between.
C20_Witness ==
    /\ last.op = "rebuild" /\ last.range = <<0, DATE(now)>>
    /\ \E m \in quality_metrics : m.date = 0 /\ m.total_extractions >= 3
    /\ \E m \in quality_metrics : m.date = DATE(now) /\ m.date > 1
    /\ \A m \in quality_metrics :
          \E r \in demo_sessions : DATE(r.created_at) = m.date
    /\ Cardinality(quality_metrics) = 2


\* The access_count a reader of the hash sees; 0 when no entry is stored.
AccessCountOf(cache, h) == SumOf(CacheRows(cache, h), "access_count")

\* C21 as stated: once a count has been seen for a hash, every later
\* observation of the hash shows a count at least as high, whatever puts,
\* lookups and cleanups lie between the two observations.
C21_NeverDecreases ==
    \A h \in Hashes : \A c \in 1..MaxAccess :
        [](AccessCountOf(extraction_cache, h) >= c
              => [](Stored(extraction_cache, h)
                      => AccessCountOf(extraction_cache, h) >= c))

\* C21 amended: while an entry stays stored its access_count never
\* decreases; an entry that appears starts at the default count, so after an
\* eviction a new put of the hash starts counting again.
C21_Step ==
    \A h \in Hashes :
        /\ (Stored(extraction_cache, h) /\ Stored(extraction_cache', h)) =>
              AccessCountOf(extraction_cache', h)
                  >= AccessCountOf(extraction_cache, h)
        /\ (~Stored(extraction_cache, h) /\ Stored(extraction_cache', h)) =>
              /\ last'.op = "put"
              /\ AccessCountOf(extraction_cache', h) = AccessCountDefault
C21_MonotoneWhileStored == [][C21_Step]_vars

\* C21 witness: an entry created at an earlier instant has been hit up to the
\* highest count and was just observed with it.
C21_Witness ==
    /\ last.op = "get" /\ last.status = "hit"
    /\ last.access_count = MaxAccess
    /\ \E r \in CacheRows(extraction_cache, last.hash) :
          r.access_count = MaxAccess /\ r.created_at < now


\* C22: on every server a GET of "/" and a GET of "/health" is answered once,
\* with status 200, however many requests were served before; the answer to
\* "/health" is the health JSON (status 'healthy'), and so is the answer to
\* "/" except where the server sends its index page.
C22_HealthAlways200 ==
    (/\ last.op = "request" /\ last.method = "GET" /\ last.query = ""
     /\ last.path \in {<<"">>, <<"health">>}) =>
        /\ Len(last.responses) = 1
        /\ last.responses[1].status = 200
        /\ last.path = <<"health">> => last.responses[1].body = "health"
        /\ last.path = <<"">> =>
              \/ last.responses[1].body = "health"
              \/ /\ last.server = "ultra_minimal" /\ last.indexReadable
                 /\ last.responses[1].body = "html"

\* C22 witness: the last of a sequence of requests to the servers, a GET of
\* "/" to the minimal server, is answered 200 with the health JSON.
C22_Witness ==
    /\ last.op = "request" /\ last.served = MaxRequests
    /\ last.method = "GET" /\ last.path = <<"">> /\ last.query = ""
    /\ last.server = "minimal"
    /\ last.responses = <<[status |-> 200, body |-> "health"]>>


\* A metrics row that accounts for every session of its date.
AllCounted(m) == m.total_extractions = Cardinality(SessionsOn(m.date))

\* The row the batch path computes for the date of a row.
Batch(m) == MetricsRow(StatsRow(m.date, SessionsOn(m.date)), m.created_at)

Routed(method, path, query) ==
    IF method = "OPTIONS" THEN [status |-> 200, body |-> "empty"]
    ELSE IF query = "" /\ path \in {<<"">>, <<"health">>}
         THEN [status |-> 200, body |-> "health"]
    ELSE IF method = "POST" /\ query = ""
            /\ path = <<"api", "v1", "contract", "analyze">>
         THEN [status |-> 200, body |-> "analysis"]
    ELSE IF method = "GET" /\ Len(path) >= 2 /\ path[1] = "download"
         THEN [status |-> 200, body |-> "pdf"]
    ELSE [status |-> 404, body |-> "error"]

\* C24: the working backend's handler (and its copy, the ultra simple server)
\* ends the response exactly once for every request, with the response of the
\* first rule that matches: OPTIONS, then "/" or "/health", then POST of the
\* analysis URL, then GET under "/download/", then 404.
C24_FirstMatchOnce ==
    (last.op = "request" /\ last.server \in {"working_backend", "ultra_simple"})
        => last.responses = <<Routed(last.method, last.path, last.query)>>

\* C24 witness: a request that matches two rules, OPTIONS on "/health", got
\* the one empty 200 of the first.
C24_Witness ==
    /\ last.op = "request" /\ last.server = "working_backend"
    /\ last.method = "OPTIONS" /\ last.path = <<"health">>
    /\ last.responses = <<[status |-> 200, body |-> "empty"]>>

\* C24 witness of the last rule: a POST under "/download/" got the 404.
C24_NotFoundWitness ==
    /\ last.op = "request" /\ last.server = "working_backend"
    /\ last.method = "POST" /\ last.path[1] = "download" /\ Len(last.path) = 2
    /\ last.responses = <<[status |-> 404, body |-> "error"]>>
====
